---- MODULE Spec2Model ----
(***************************************************************************)
(* Model of server/hosts/install_server.py: CobblerInterface, the client   *)
(* that drives a Cobbler install server over XML-RPC.                      *)
(*                                                                         *)
(* One client object is constructed and then called a bounded number of    *)
(* times (install_host, power_host, get_system_handle).  Every remote      *)
(* procedure call, every sleep and every host.record is one step; the      *)
(* answers of the install server (a fault, the current profile, the        *)
(* netboot flag, the latency of a poll) are chosen by the environment.     *)
(***************************************************************************)
EXTENDS Integers, Sequences, FiniteSets, TLC

VARIABLES
    xmlrpc_url,         \* self.xmlrpc_url
    token,              \* self.token (Unset when there was no login)
    fallback_profile,   \* self.fallback_profile
    pc,                 \* position of the running call
    op,                 \* the public method being run
    host,               \* host.hostname of the running call
    profileArg,         \* the `profile` argument of install_host
    timeoutArg,         \* the `timeout` argument of install_host
    profile,            \* the local `profile` of install_host
    timeout,            \* the local `timeout` of install_host
    state,              \* the `state` argument of power_host
    system,             \* the local `system`
    system_handle,      \* the local `system_handle`
    current_profile,    \* the local `current_profile`
    install_start,      \* the local `install_start`
    time_elapsed,       \* the local `time_elapsed`
    install_successful, \* the local `install_successful`
    now,                \* time.time()
    clearAt,            \* the poll on which the server clears netboot_enabled (0: never)
    polls,              \* status queries answered inside the poll loop of this call
    slowTicks,          \* slow polls so far in this call
    handlesIssued,      \* handles the server has handed out
    logins,             \* login calls made so far
    trace,              \* the calls this call has issued, in order
    slept,              \* seconds slept by this call
    outcome,            \* how the call ended
    errHost,            \* the hostname carried by the raised error
    errorsLogged        \* logging.error calls of this call

sessionVars == <<xmlrpc_url, token, fallback_profile, logins>>
argVars     == <<op, host, profileArg, timeoutArg, state, clearAt>>
localVars   == <<profile, timeout, system, system_handle, current_profile,
                 install_start, time_elapsed, install_successful>>
envVars     == <<now, polls, slowTicks, handlesIssued>>
obsVars     == <<trace, slept, outcome, errHost, errorsLogged>>
vars == <<sessionVars, argVars, localVars, envVars, obsVars, pc>>

----------------------------------------------------------------------------
\* Bounds of the model.
MaxHandles   == 2   \* handles the server hands out to one client
MaxSlowTicks == 1   \* polls of one call whose answer is slow
MaxClearAt   == 3   \* latest poll on which the server clears the flag
RpcLatency   == 70  \* seconds a slow status query takes

\* Program constants.
step_time      == 60
DefaultTimeout == 3600

None  == "None"     \* Python's None, where a string is expected
Unset == "unset"    \* an attribute or local that was never assigned

Urls             == {"", None, "http://cobbler/cobbler_api"}
Hosts            == {"h1", "h2"}
Registered       == {"h1"}                 \* hostnames find_system knows
ProfileArgs      == {None, "", "old", "new"}
FallbackProfiles == {"", "new"}
RemoteProfiles   == {"old", "new"}         \* what get_system may report
PowerStates      == {"on", "off", "reboot"}
TimeoutSecs      == {-60, 0, 60, 120}
Epochs           == {1000}                 \* time.time() when a call starts
NoTimeout        == [given |-> FALSE, secs |-> 0]
TimeoutArgs      == {NoTimeout} \cup {[given |-> TRUE, secs |-> t] : t \in TimeoutSecs}
RpcResults       == {"ok", "fault"}
DhcpResults      == {"ok", "unknown remote method", "other fault"}
HandleNames      == <<"hdl1", "hdl2", "hdl3", "hdl4", "hdl5", "hdl6">>

----------------------------------------------------------------------------
\* Helpers.

\* Python truth of a string-or-None value.
Truthy(x) == x \notin {"", None}

\* One issued call: its name, its arguments and what came back.
Entry(c, a, r) == [call |-> c, args |-> a, res |-> r]

----------------------------------------------------------------------------
\* Decisions of the code.

\* Variant: only the empty string disables the client, None does not.
EndpointConfigured_NoneIsSet(url) == url # ""

\* `if self.xmlrpc_url:`
EndpointConfigured(url) == Truthy(url)

\* Variant: a missing timeout is taken as zero instead of one hour.
EffectiveTimeout_NoDefault(t) == t.secs

\* `if timeout is None: timeout = 1 * 3600`
EffectiveTimeout(t) == IF t.given THEN t.secs ELSE DefaultTimeout

\* Variant: the fallback profile is not consulted.
TargetProfile_NoFallback(p, fallback) == p

\* `if profile is None: profile = self.fallback_profile`
TargetProfile(p, fallback) == IF p = None THEN fallback ELSE p

\* Variant: the profile is written whenever one is given.
MustSetProfile_Always(p, current) == Truthy(p)

\* `if profile and (profile != current_profile):`
MustSetProfile(p, current) == Truthy(p) /\ p # current

\* Variant: the loop gives up when the next tick would reach the timeout.
LoopContinues_OneTickEarly(elapsed, tmo) == elapsed + step_time < tmo

\* Variant: the loop goes on while the timeout is not exceeded.
LoopContinues_Inclusive(elapsed, tmo) == elapsed <= tmo

\* `while time_elapsed < timeout:`
LoopContinues(elapsed, tmo) == elapsed < tmo

\* Variant: the flag is read the wrong way round.
InstallSuccessful_Inverted(netboot_enabled) == netboot_enabled

\* `install_successful = not system_info.get('netboot_enabled')`
InstallSuccessful(netboot_enabled) == ~netboot_enabled

\* `if not install_successful:` after the loop
AfterLoop(successful) == IF successful THEN "wait_for_restart" ELSE "record_end_fail"

\* Variant: only the fault of an older server is swallowed, any other is re-raised.
DhcpFaultPropagates_UnlessUnknown(faultString) ==
    faultString # "unknown remote method"

\* `except xmlrpclib.Fault, err:` around sync_dhcp: no fault is re-raised.
DhcpFaultPropagates(faultString) == FALSE

\* `if not "unknown remote method" in err.faultString:` logging.error(...)
DhcpFaultLogged(faultString) == faultString # "unknown remote method"

\* The install server's answer to the k-th status query of the poll loop.
NetbootEnabled(k, c) == ~(c # 0 /\ k >= c)

\* Variant: the first element is taken although the list is empty.
FindSystemResult_NeverEmpty(h) == <<h>>

\* find_system({"name": hostname}): the list of matching systems.
FindSystemResult(h) == IF h \in Registered THEN <<h>> ELSE <<>>

----------------------------------------------------------------------------
Init ==
    /\ xmlrpc_url = Unset /\ token = Unset /\ fallback_profile = Unset
    /\ logins = 0
    /\ pc = "new"
    /\ op = "none" /\ host = Unset /\ profileArg = Unset
    /\ timeoutArg = NoTimeout /\ state = Unset /\ clearAt = 0
    /\ profile = Unset /\ timeout = 0 /\ system = Unset
    /\ system_handle = Unset /\ current_profile = Unset
    /\ install_start = 0 /\ time_elapsed = 0 /\ install_successful = FALSE
    /\ now = 0 /\ polls = 0 /\ slowTicks = 0 /\ handlesIssued = 0
    /\ trace = <<>> /\ slept = 0 /\ outcome = "none" /\ errHost = Unset
    /\ errorsLogged = 0

\* CobblerInterface.__init__
Construct ==
    /\ pc = "new"
    /\ \E url \in Urls, fb \in FallbackProfiles, r \in RpcResults :
         /\ xmlrpc_url' = url
         /\ fallback_profile' = fb
         /\ IF EndpointConfigured(url)
              THEN /\ logins' = logins + 1
                   /\ IF r = "ok"
                        THEN token' = "tok1" /\ pc' = "idle"
                        ELSE token' = Unset /\ pc' = "failed"
              ELSE /\ r = "ok"
                   /\ logins' = logins
                   /\ token' = Unset
                   /\ pc' = "idle"
    /\ UNCHANGED <<argVars, localVars, envVars, obsVars>>

\* The state every call starts from.
StartCall(o, h, p, t, s, c, e) ==
    /\ pc = "idle"
    /\ handlesIssued < MaxHandles
    /\ op' = o /\ host' = h /\ profileArg' = p /\ timeoutArg' = t
    /\ state' = s /\ clearAt' = c
    /\ profile' = p /\ system' = Unset
    /\ system_handle' = Unset /\ current_profile' = Unset
    /\ install_start' = 0 /\ time_elapsed' = 0 /\ install_successful' = FALSE
    /\ now' = e /\ polls' = 0 /\ slowTicks' = 0
    /\ trace' = <<>> /\ slept' = 0 /\ errHost' = Unset /\ errorsLogged' = 0
    /\ UNCHANGED <<sessionVars, handlesIssued>>

\* install_host, up to the call of get_system_handle: nothing happens
\* without an endpoint.
CallInstallHost ==
    \E h \in Hosts, p \in ProfileArgs, t \in TimeoutArgs,
       c \in 0..MaxClearAt, e \in Epochs :
        /\ StartCall("install_host", h, p, t, Unset, c, e)
        /\ IF EndpointConfigured(xmlrpc_url)
             THEN /\ timeout' = EffectiveTimeout(t)
                  /\ pc' = "find_system"
                  /\ outcome' = "none"
             ELSE /\ timeout' = 0
                  /\ pc' = "done"
                  /\ outcome' = "ok"

\* power_host, up to the call of get_system_handle.
CallPowerHost ==
    \E h \in Hosts, s \in PowerStates :
        /\ StartCall("power_host", h, Unset, NoTimeout, s, 0, 0)
        /\ timeout' = 0
        /\ IF EndpointConfigured(xmlrpc_url)
             THEN pc' = "find_system" /\ outcome' = "none"
             ELSE pc' = "done" /\ outcome' = "ok"

\* get_system_handle called directly.
CallGetSystemHandle ==
    \E h \in Hosts :
        /\ StartCall("get_system_handle", h, Unset, NoTimeout, Unset, 0, 0)
        /\ timeout' = 0
        /\ pc' = "find_system"
        /\ outcome' = "none"

\* The call ends by raising `out` after the call `e` was issued.
Raise(out, e) ==
    /\ pc' = "done"
    /\ outcome' = out
    /\ trace' = Append(trace, e)

\* get_system_handle: find_system(...)[0]
FindSystem ==
    /\ pc = "find_system"
    /\ UNCHANGED <<sessionVars, argVars, envVars, slept,
                   profile, timeout, system_handle, current_profile,
                   install_start, time_elapsed, install_successful>>
    /\ IF ~EndpointConfigured(xmlrpc_url)
         THEN \* self.server was never set
              /\ pc' = "done" /\ outcome' = "AttributeError"
              /\ UNCHANGED <<trace, errHost, system, errorsLogged>>
         ELSE \E r \in RpcResults :
              IF r = "fault"
                THEN /\ Raise("Fault", Entry("find_system", <<host>>, "fault"))
                     /\ UNCHANGED <<errHost, system, errorsLogged>>
                ELSE IF FindSystemResult(host) = <<>>
                  THEN /\ Raise("ValueError", Entry("find_system", <<host>>, "none"))
                       /\ errHost' = host
                       /\ errorsLogged' = errorsLogged + 1
                       /\ UNCHANGED system
                  ELSE /\ system' = FindSystemResult(host)[1]
                       /\ trace' = Append(trace, Entry("find_system", <<host>>, "found"))
                       /\ pc' = "get_system_handle"
                       /\ UNCHANGED <<outcome, errHost, errorsLogged>>

\* Where the caller of get_system_handle goes on.
AfterHandle(o) ==
    CASE o = "install_host" -> "get_system"
      [] o = "power_host"   -> "power_host_power_system"
      [] OTHER              -> "done"

\* Variant: the handle of the first call is kept and used again.
GetSystemHandle_Cached ==
    /\ pc = "get_system_handle"
    /\ UNCHANGED <<sessionVars, argVars, slept, errHost, errorsLogged,
                   now, polls, slowTicks, profile, timeout, system, current_profile,
                   install_start, time_elapsed, install_successful>>
    /\ \E r \in RpcResults :
         IF handlesIssued > 0
           THEN /\ r = "ok"
                /\ system_handle' = HandleNames[1]
                /\ pc' = AfterHandle(op)
                /\ outcome' = IF AfterHandle(op) = "done" THEN "ok" ELSE outcome
                /\ UNCHANGED <<trace, handlesIssued>>
           ELSE IF r = "fault"
             THEN /\ Raise("Fault", Entry("get_system_handle", <<system, token>>, "fault"))
                  /\ UNCHANGED <<system_handle, handlesIssued>>
             ELSE /\ handlesIssued' = handlesIssued + 1
                  /\ system_handle' = HandleNames[handlesIssued + 1]
                  /\ trace' = Append(trace, Entry("get_system_handle", <<system, token>>, "ok"))
                  /\ pc' = AfterHandle(op)
                  /\ outcome' = IF AfterHandle(op) = "done" THEN "ok" ELSE outcome

\* get_system_handle: self.server.get_system_handle(system, self.token)
GetSystemHandle ==
    /\ pc = "get_system_handle"
    /\ UNCHANGED <<sessionVars, argVars, slept, errHost, errorsLogged,
                   now, polls, slowTicks, profile, timeout, system, current_profile,
                   install_start, time_elapsed, install_successful>>
    /\ \E r \in RpcResults :
         IF r = "fault"
           THEN /\ Raise("Fault", Entry("get_system_handle", <<system, token>>, "fault"))
                /\ UNCHANGED <<system_handle, handlesIssued>>
           ELSE /\ handlesIssued' = handlesIssued + 1
                /\ system_handle' = HandleNames[handlesIssued + 1]
                /\ trace' = Append(trace, Entry("get_system_handle", <<system, token>>, "ok"))
                /\ pc' = AfterHandle(op)
                /\ outcome' = IF AfterHandle(op) = "done" THEN "ok" ELSE outcome

\* Variant: power_host always reboots, whatever state was asked for.
PowerHostPowerSystem_AlwaysReboot ==
    /\ pc = "power_host_power_system"
    /\ UNCHANGED <<sessionVars, argVars, localVars, envVars, slept,
                   errHost, errorsLogged>>
    /\ \E r \in RpcResults :
         /\ trace' = Append(trace,
                Entry("power_system", <<system_handle, "reboot", token>>, r))
         /\ pc' = "done"
         /\ outcome' = IF r = "fault" THEN "Fault" ELSE "ok"

\* power_host: self.server.power_system(system_handle, state, self.token)
PowerHostPowerSystem ==
    /\ pc = "power_host_power_system"
    /\ UNCHANGED <<sessionVars, argVars, localVars, envVars, slept,
                   errHost, errorsLogged>>
    /\ \E r \in RpcResults :
         /\ trace' = Append(trace,
                Entry("power_system", <<system_handle, state, token>>, r))
         /\ pc' = "done"
         /\ outcome' = IF r = "fault" THEN "Fault" ELSE "ok"

----------------------------------------------------------------------------
\* install_host, one step per call it issues.

\* What an install step leaves alone besides its own locals.
InstallFrame == UNCHANGED <<sessionVars, argVars, handlesIssued, errHost>>

\* profile = fallback if None; system_info = get_system(system);
\* current_profile = system_info.get('profile'); the profile test.
GetSystem ==
    /\ pc = "get_system"
    /\ InstallFrame
    /\ UNCHANGED <<timeout, system, system_handle, install_start, time_elapsed,
                   install_successful, now, polls, slowTicks, slept, errorsLogged>>
    /\ LET target == TargetProfile(profile, fallback_profile) IN
       \E r \in RpcResults, cur \in RemoteProfiles :
         IF r = "fault"
           THEN /\ Raise("Fault", Entry("get_system", <<system>>, "fault"))
                /\ profile' = target
                /\ UNCHANGED current_profile
           ELSE /\ current_profile' = cur
                /\ trace' = Append(trace, Entry("get_system", <<system>>, "info"))
                /\ UNCHANGED outcome
                /\ IF MustSetProfile(target, cur)
                     THEN profile' = target /\ pc' = "modify_profile"
                     ELSE profile' = cur /\ pc' = "modify_netboot"

\* Variant: a fault of the call is swallowed and the install goes on.
RpcStep_Swallows(e, next) ==
    /\ InstallFrame
    /\ UNCHANGED <<localVars, now, polls, slowTicks, slept, errorsLogged>>
    /\ \E r \in RpcResults :
         /\ trace' = Append(trace, [e EXCEPT !.res = r])
         /\ pc' = next
         /\ UNCHANGED outcome

\* A remote call of install_host that any fault ends: on success go to `next`.
RpcStep(e, next) ==
    /\ InstallFrame
    /\ UNCHANGED <<localVars, now, polls, slowTicks, slept, errorsLogged>>
    /\ \E r \in RpcResults :
         IF r = "fault"
           THEN Raise("Fault", [e EXCEPT !.res = "fault"])
           ELSE /\ trace' = Append(trace, e)
                /\ pc' = next
                /\ UNCHANGED outcome

\* modify_system(system_handle, 'profile', profile, self.token)
ModifyProfile ==
    /\ pc = "modify_profile"
    /\ RpcStep(Entry("modify_system", <<system_handle, "profile", profile, token>>, "ok"),
               "modify_netboot")

\* Variant: the system is saved right after netboot is enabled, without sync_dhcp.
ModifyNetboot_SkipsDhcp ==
    /\ pc = "modify_netboot"
    /\ RpcStep(Entry("modify_system",
                     <<system_handle, "netboot_enabled", "True", token>>, "ok"),
               "save_system")

\* modify_system(system_handle, 'netboot_enabled', 'True', self.token)
ModifyNetboot ==
    /\ pc = "modify_netboot"
    /\ RpcStep(Entry("modify_system",
                     <<system_handle, "netboot_enabled", "True", token>>, "ok"),
               "sync_dhcp")

\* try: sync_dhcp(self.token) except xmlrpclib.Fault: log unless the method
\* is unknown to the server.
SyncDhcp ==
    /\ pc = "sync_dhcp"
    /\ InstallFrame
    /\ UNCHANGED <<localVars, now, polls, slowTicks, slept>>
    /\ \E r \in DhcpResults :
         /\ trace' = Append(trace, Entry("sync_dhcp", <<token>>, r))
         /\ IF r # "ok" /\ DhcpFaultPropagates(r)
              THEN pc' = "done" /\ outcome' = "Fault"
              ELSE pc' = "save_system" /\ UNCHANGED outcome
         /\ errorsLogged' = IF r # "ok" /\ DhcpFaultLogged(r)
                              THEN errorsLogged + 1 ELSE errorsLogged

\* save_system(system_handle, self.token)
SaveSystem ==
    /\ pc = "save_system"
    /\ RpcStep(Entry("save_system", <<system_handle, token>>, "ok"), "power_system")

\* power_system(system_handle, 'reboot', self.token)
PowerSystem ==
    /\ pc = "power_system"
    /\ RpcStep(Entry("power_system", <<system_handle, "reboot", token>>, "ok"),
               "record_start")

\* A host.record call: on to `next`.
RecordStep(e, next) ==
    /\ InstallFrame
    /\ UNCHANGED <<localVars, now, polls, slowTicks, slept, errorsLogged, outcome>>
    /\ trace' = Append(trace, e)
    /\ pc' = next

\* host.record("START", None, "install", host.hostname)
RecordStart ==
    /\ pc = "record_start"
    /\ RecordStep(Entry("record", <<"START", "install", host>>, "ok"), "record_good")

\* host.record("GOOD", None, "install.start", host.hostname)
RecordGood ==
    /\ pc = "record_good"
    /\ RecordStep(Entry("record", <<"GOOD", "install.start", host>>, "ok"), "start_clock")

\* Variant: the status is checked once before the first sleep.
StartClock_ChecksFirst ==
    /\ pc = "start_clock"
    /\ InstallFrame
    /\ install_start' = now
    /\ time_elapsed' = 0
    /\ install_successful' = FALSE
    /\ pc' = IF LoopContinues(0, timeout) THEN "poll" ELSE AfterLoop(FALSE)
    /\ UNCHANGED <<profile, timeout, system, system_handle, current_profile,
                   envVars, obsVars>>

\* Variant: the loop condition looks at the elapsed time of loop entry only.
LoopTest_StaleElapsed(elapsed, successful) ==
    IF LoopContinues(0, timeout) THEN "sleep" ELSE AfterLoop(successful)

\* `while time_elapsed < timeout:` with the test that follows the loop: where
\* control goes when the loop condition is evaluated.
LoopTest(elapsed, successful) ==
    IF LoopContinues(elapsed, timeout) THEN "sleep" ELSE AfterLoop(successful)

\* install_start = time.time(); time_elapsed = 0; install_successful = False;
\* the first evaluation of the loop condition
StartClock ==
    /\ pc = "start_clock"
    /\ InstallFrame
    /\ install_start' = now
    /\ time_elapsed' = 0
    /\ install_successful' = FALSE
    /\ pc' = LoopTest(0, FALSE)
    /\ UNCHANGED <<profile, timeout, system, system_handle, current_profile,
                   envVars, obsVars>>

\* time.sleep(step_time)
Sleep ==
    /\ pc = "sleep"
    /\ InstallFrame
    /\ now' = now + step_time
    /\ slept' = slept + step_time
    /\ trace' = Append(trace, Entry("sleep", <<>>, "ok"))
    /\ pc' = "poll"
    /\ UNCHANGED <<localVars, polls, slowTicks, outcome, errorsLogged>>

\* Variant: the elapsed time is tested before the flag, so a poll made at or
\* after the timeout counts as a timeout whatever the flag says.
Poll_TimeoutFirst ==
    /\ pc = "poll"
    /\ InstallFrame
    /\ UNCHANGED <<profile, timeout, system, system_handle, current_profile,
                   install_start, slept, errorsLogged>>
    /\ \E r \in RpcResults, lat \in {0, RpcLatency} :
         /\ lat > 0 => slowTicks < MaxSlowTicks
         /\ slowTicks' = IF lat > 0 THEN slowTicks + 1 ELSE slowTicks
         /\ now' = now + lat
         /\ polls' = polls + 1
         /\ IF r = "fault"
              THEN /\ Raise("Fault", Entry("get_system", <<system>>, "fault"))
                   /\ UNCHANGED <<install_successful, time_elapsed>>
              ELSE LET enabled == NetbootEnabled(polls + 1, clearAt) IN
                   /\ trace' = Append(trace, Entry("get_system", <<system>>,
                                  IF enabled THEN "enabled" ELSE "cleared"))
                   /\ UNCHANGED outcome
                   /\ time_elapsed' = now' - install_start
                   /\ IF ~LoopContinues(now' - install_start, timeout)
                        THEN /\ install_successful' = FALSE
                             /\ pc' = AfterLoop(FALSE)
                        ELSE /\ install_successful' = InstallSuccessful(enabled)
                             /\ pc' = IF InstallSuccessful(enabled)
                                        THEN AfterLoop(TRUE) ELSE "sleep"

\* system_info = get_system(system); install_successful = not netboot_enabled;
\* break, or time_elapsed = time.time() - install_start and the loop condition
Poll ==
    /\ pc = "poll"
    /\ InstallFrame
    /\ UNCHANGED <<profile, timeout, system, system_handle, current_profile,
                   install_start, slept, errorsLogged>>
    /\ \E r \in RpcResults, lat \in {0, RpcLatency} :
         /\ lat > 0 => slowTicks < MaxSlowTicks
         /\ slowTicks' = IF lat > 0 THEN slowTicks + 1 ELSE slowTicks
         /\ now' = now + lat
         /\ polls' = polls + 1
         /\ IF r = "fault"
              THEN /\ Raise("Fault", Entry("get_system", <<system>>, "fault"))
                   /\ UNCHANGED <<install_successful, time_elapsed>>
              ELSE LET enabled == NetbootEnabled(polls + 1, clearAt) IN
                   /\ install_successful' = InstallSuccessful(enabled)
                   /\ trace' = Append(trace, Entry("get_system", <<system>>,
                                  IF enabled THEN "enabled" ELSE "cleared"))
                   /\ UNCHANGED outcome
                   /\ IF InstallSuccessful(enabled)
                        THEN /\ pc' = AfterLoop(TRUE)
                             /\ UNCHANGED time_elapsed
                        ELSE /\ time_elapsed' = now' - install_start
                             /\ pc' = LoopTest(now' - install_start, FALSE)

\* Variant: the error is not raised after END FAIL, the install goes on.
RecordEndFail_FallsThrough ==
    /\ pc = "record_end_fail"
    /\ RecordStep(Entry("record", <<"END FAIL", "install", host>>, "ok"),
                  "wait_for_restart")

\* host.record("END FAIL", None, "install", e_msg)
RecordEndFail ==
    /\ pc = "record_end_fail"
    /\ RecordStep(Entry("record", <<"END FAIL", "install", host>>, "ok"), "raise_timeout")

\* Variant: the timeout of the install is swallowed like a sync_dhcp fault.
RaiseTimeout_Swallowed ==
    /\ pc = "raise_timeout"
    /\ UNCHANGED <<sessionVars, argVars, localVars, envVars,
                   trace, slept, errorsLogged, errHost>>
    /\ pc' = "done"
    /\ outcome' = "ok"

\* raise error.HostInstallTimeoutError('Host %s install timed out' % hostname)
RaiseTimeout ==
    /\ pc = "raise_timeout"
    /\ UNCHANGED <<sessionVars, argVars, localVars, envVars,
                   trace, slept, errorsLogged>>
    /\ pc' = "done"
    /\ outcome' = "HostInstallTimeoutError"
    /\ errHost' = host

\* Variant: a failure of wait_for_restart is ignored.
WaitForRestart_IgnoresFailure ==
    /\ pc = "wait_for_restart"
    /\ InstallFrame
    /\ UNCHANGED <<localVars, now, polls, slowTicks, slept, errorsLogged, outcome>>
    /\ \E r \in {"ok", "raised"} :
         /\ trace' = Append(trace, Entry("wait_for_restart", <<>>, r))
         /\ pc' = "record_end_good"

\* host.wait_for_restart()
WaitForRestart ==
    /\ pc = "wait_for_restart"
    /\ InstallFrame
    /\ UNCHANGED <<localVars, now, polls, slowTicks, slept, errorsLogged>>
    /\ \E r \in {"ok", "raised"} :
         /\ trace' = Append(trace, Entry("wait_for_restart", <<>>, r))
         /\ IF r = "ok"
              THEN pc' = "record_end_good" /\ UNCHANGED outcome
              ELSE pc' = "done" /\ outcome' = "RestartError"

\* host.record("END GOOD", None, "install", host.hostname);
\* time_elapsed = time.time() - install_start
RecordEndGood ==
    /\ pc = "record_end_good"
    /\ InstallFrame
    /\ trace' = Append(trace, Entry("record", <<"END GOOD", "install", host>>, "ok"))
    /\ time_elapsed' = now - install_start
    /\ pc' = "done"
    /\ outcome' = "ok"
    /\ UNCHANGED <<profile, timeout, system, system_handle, current_profile,
                   install_start, install_successful, now, polls, slowTicks,
                   slept, errorsLogged>>

\* The call returns (or its exception unwinds) to the caller: its arguments
\* and locals are gone, the client object and the server remain.
Return ==
    /\ pc = "done"
    /\ pc' = "idle"
    /\ op' = "none" /\ host' = Unset /\ profileArg' = Unset
    /\ timeoutArg' = NoTimeout /\ state' = Unset /\ clearAt' = 0
    /\ profile' = Unset /\ timeout' = 0 /\ system' = Unset
    /\ system_handle' = Unset /\ current_profile' = Unset
    /\ install_start' = 0 /\ time_elapsed' = 0 /\ install_successful' = FALSE
    /\ now' = 0 /\ polls' = 0 /\ slowTicks' = 0
    /\ trace' = <<>> /\ slept' = 0 /\ outcome' = "none" /\ errHost' = Unset
    /\ errorsLogged' = 0
    /\ UNCHANGED <<sessionVars, handlesIssued>>

----------------------------------------------------------------------------
Next ==
    \/ Construct
    \/ CallInstallHost
    \/ CallPowerHost
    \/ CallGetSystemHandle
    \/ FindSystem
    \/ GetSystemHandle
    \/ PowerHostPowerSystem
    \/ GetSystem
    \/ ModifyProfile
    \/ ModifyNetboot
    \/ SyncDhcp
    \/ SaveSystem
    \/ PowerSystem
    \/ RecordStart
    \/ RecordGood
    \/ StartClock
    \/ Sleep
    \/ Poll
    \/ RecordEndFail
    \/ RaiseTimeout
    \/ WaitForRestart
    \/ RecordEndGood
    \/ Return

Spec == Init /\ [][Next]_vars

\* The one thread of install_host goes on: a sleep returns, a status query
\* is answered or faults.
FairSpec == Spec /\ WF_vars(Sleep) /\ WF_vars(Poll)

----------------------------------------------------------------------------
\* Properties.

Calls(name)      == {i \in 1..Len(trace) : trace[i].call = name}
Last(s)          == s[Len(s)]
Constructed      == pc \notin {"new", "failed"}
Configured       == Constructed /\ xmlrpc_url \notin {"", None}
Installing       == op = "install_host" /\ Configured
TimedOut         == pc = "done" /\ outcome = "HostInstallTimeoutError"

\* C1: a client constructed with an empty or None endpoint never logs in, and
\* its install_host and power_host return at once without a remote call, a
\* sleep, a recorded event, a wait for restart or an error.
C1_EmptyEndpointNoOp ==
    (Constructed /\ xmlrpc_url \in {"", None}) =>
        /\ logins = 0 /\ token = Unset /\ handlesIssued = 0
        /\ op \in {"install_host", "power_host"} =>
              /\ pc = "done" /\ outcome = "ok"
              /\ trace = <<>> /\ slept = 0 /\ errorsLogged = 0
              /\ polls = 0 /\ system_handle = Unset

C1_Witness ==
    /\ xmlrpc_url = "" /\ op = "install_host" /\ pc = "done"
    /\ host = "h2" /\ profileArg = "new" /\ timeoutArg.given /\ timeoutArg.secs = 0

\* C2: when find_system answers with an empty list, the call ends there with
\* the registration error naming the host: find_system is the only call
\* issued, no handle is asked for, nothing is modified, saved or powered, and
\* no event is recorded.
C2_UnregisteredHostFails ==
    (op # "none" /\ Configured /\ host \notin Registered
       /\ trace # <<>> /\ trace[1].res # "fault") =>
        /\ pc = "done"
        /\ outcome = "ValueError"
        /\ errHost = host
        /\ trace = <<Entry("find_system", <<host>>, "none")>>
        /\ system_handle = Unset /\ slept = 0

C2_Witness ==
    /\ op = "install_host" /\ host = "h2" /\ pc = "done"
    /\ outcome = "ValueError" /\ Len(trace) = 1

\* C3: when the flag never clears and no remote call faults, install_host
\* ends with the timeout error, and from the moment the loop is left the
\* elapsed time since the loop started is at least the timeout.
C3_TimeoutAfterElapsed ==
    (Installing /\ clearAt = 0 /\ host \in Registered /\ outcome # "Fault"
       /\ pc \in {"record_end_fail", "raise_timeout", "done"}) =>
        /\ pc = "done" => outcome = "HostInstallTimeoutError"
        /\ ~install_successful
        /\ time_elapsed >= timeout
        /\ now - install_start >= timeout

C3_Witness ==
    /\ TimedOut /\ clearAt = 0 /\ timeoutArg.given /\ timeout = 120
    /\ time_elapsed = 120 /\ polls = 2

\* C4 as stated: with the flag never clearing, whatever timeout is passed,
\* the timeout error is not raised before one 60-second sleep has elapsed.
C4_Original ==
    (Installing /\ clearAt = 0 /\ pc \in {"raise_timeout", "done"}
       /\ (pc = "done" => outcome = "HostInstallTimeoutError")) =>
        /\ slept >= step_time
        /\ now - install_start >= step_time

\* C4 amended: the timeout error is preceded by at least one 60-second sleep
\* and one status query when the timeout passed is positive or left out (one
\* hour); with a timeout of zero or less it is raised at once, with no sleep
\* and no status query.
C4_NoEarlyTimeout ==
    (Installing /\ clearAt = 0 /\ pc \in {"raise_timeout", "done"}
       /\ (pc = "done" => outcome = "HostInstallTimeoutError")) =>
        IF ~timeoutArg.given \/ timeoutArg.secs > 0
          THEN /\ slept >= step_time
               /\ now - install_start >= step_time
               /\ polls >= 1
          ELSE /\ slept = 0 /\ polls = 0 /\ now = install_start

C4_Witness ==
    /\ TimedOut /\ clearAt = 0 /\ timeoutArg.given /\ timeoutArg.secs = 60
    /\ slept = 60 /\ polls = 1

\* The status queries (get_system) of the trace.
StatusQueries == Calls("get_system")
Sleeps        == Calls("sleep")
SucceededInstall == Installing /\ pc = "done" /\ outcome = "ok"

\* C5 as stated: an install whose flag clears on poll N sleeps and checks N
\* times, waits for the restart, records END GOOD, and has made N status
\* queries in all.
C5_Original ==
    (Installing /\ pc = "done" /\ clearAt >= 1 /\ outcome = "ok") =>
        /\ Cardinality(Sleeps) = clearAt
        /\ Cardinality(StatusQueries) = clearAt

\* C5 amended: with a positive timeout, the first N-1 polls inside it and no
\* failing call, an install whose flag clears on poll N makes exactly N
\* sleep/check cycles, then waits for the restart, then records END GOOD;
\* it makes N+1 status queries in all: the profile read before the loop and
\* the N polls.  An install that times out although the flag would clear on
\* poll N has polled fewer than N times, and its timeout was reached.
C5_ClearsOnNthPoll ==
    /\ SucceededInstall =>
          /\ clearAt >= 1 /\ polls = clearAt
          /\ Cardinality(Sleeps) = clearAt
          /\ slept = clearAt * step_time
          /\ Cardinality(StatusQueries) = clearAt + 1
          /\ Len(trace) >= 3
          /\ trace[Len(trace) - 2] = Entry("get_system", <<system>>, "cleared")
          /\ trace[Len(trace) - 1] = Entry("wait_for_restart", <<>>, "ok")
          /\ Last(trace) = Entry("record", <<"END GOOD", "install", host>>, "ok")
          /\ Cardinality({i \in StatusQueries : trace[i].res = "info"}) = 1
          /\ Cardinality({i \in StatusQueries : trace[i].res = "enabled"}) = clearAt - 1
          /\ Cardinality({i \in StatusQueries : trace[i].res = "cleared"}) = 1
    /\ (Installing /\ TimedOut /\ clearAt >= 1) =>
          /\ polls < clearAt
          /\ time_elapsed >= timeout
          /\ polls = 0 => timeout <= 0

C5_Witness ==
    /\ SucceededInstall /\ clearAt = 2 /\ polls = 2 /\ slept = 120
    /\ Cardinality(StatusQueries) = 3

\* The profile install_host aims at, and the modify_system calls that set a field.
Target           == TargetProfile(profileArg, fallback_profile)
Modifies(field)  == {i \in Calls("modify_system") : trace[i].args[2] = field}
ProfileRead      == Installing /\ current_profile # Unset

\* C6 as stated: no profile write when the target equals the current
\* profile; for every target that differs, exactly one profile write, with
\* the target, before netboot_enabled is set.
C6_Original ==
    (ProfileRead /\ profileArg # None /\ Modifies("netboot_enabled") # {}) =>
        IF Target = current_profile
          THEN Modifies("profile") = {}
          ELSE /\ Cardinality(Modifies("profile")) = 1
               /\ \A i \in Modifies("profile"), j \in Modifies("netboot_enabled") :
                      i < j /\ trace[i].args[3] = Target

\* C6 amended: no profile write when the target equals the current profile
\* or is empty; for every non-empty target that differs, an install that gets
\* as far as setting netboot_enabled has written the profile exactly once,
\* with the target, before that.
C6_ProfileWrittenOnce ==
    /\ (ProfileRead /\ (Target = current_profile \/ Target \in {"", None})) =>
          Modifies("profile") = {}
    /\ (ProfileRead /\ Modifies("netboot_enabled") # {}
          /\ Target # current_profile /\ Target \notin {"", None}) =>
          /\ Cardinality(Modifies("profile")) = 1
          /\ Cardinality(Modifies("netboot_enabled")) = 1
          /\ \A i \in Modifies("profile"), j \in Modifies("netboot_enabled") :
                 /\ i < j
                 /\ trace[i].args = <<system_handle, "profile", Target, token>>
                 /\ trace[j].args = <<system_handle, "netboot_enabled", "True", token>>

C6_Witness ==
    /\ SucceededInstall /\ profileArg = "new" /\ current_profile = "old"
    /\ Cardinality(Modifies("profile")) = 1

\* What the install goes on with after sync_dhcp, and where it goes next.
AfterDhcp == <<"save_system", "power_system", "record", "record">>
DhcpFaults == {i \in Calls("sync_dhcp") : trace[i].res # "ok"}

\* C7: a fault of sync_dhcp, of either kind, does not end install_host: the
\* next calls are save_system, power_system('reboot'), the START and GOOD
\* events and then the poll loop (its first sleep, or END FAIL at once when
\* the timeout is not positive), whatever sync_dhcp answered, and an error
\* that ends the run comes from a later call.
C7_DhcpFaultAbsorbed ==
    \A i \in Calls("sync_dhcp") :
        /\ i = Len(trace) => pc = "save_system" /\ outcome = "none"
        /\ \A k \in 1..Len(AfterDhcp) :
               i + k <= Len(trace) => trace[i + k].call = AfterDhcp[k]
        /\ i + 2 <= Len(trace) => trace[i + 2].args[2] = "reboot"
        /\ i + 3 <= Len(trace) => trace[i + 3].args[1] = "START"
        /\ i + 4 <= Len(trace) => trace[i + 4].args[1] = "GOOD"
        /\ i + 5 <= Len(trace) =>
               trace[i + 5] = IF timeout > 0
                                THEN Entry("sleep", <<>>, "ok")
                                ELSE Entry("record", <<"END FAIL", "install", host>>, "ok")
        /\ (pc = "done" /\ outcome = "Fault") =>
               i < Len(trace) /\ Last(trace).res = "fault"

C7_Witness ==
    /\ SucceededInstall
    /\ \E i \in DhcpFaults : trace[i].res = "other fault"
    /\ errorsLogged = 1

\* The calls of a successful install, as the specification lists them.
Setup(h, hdl, tok, setProfile, target, dhcp) ==
    <<Entry("find_system", <<h>>, "found"),
      Entry("get_system_handle", <<h, tok>>, "ok"),
      Entry("get_system", <<h>>, "info")>>
    \o (IF setProfile
          THEN <<Entry("modify_system", <<hdl, "profile", target, tok>>, "ok")>>
          ELSE <<>>)
    \o <<Entry("modify_system", <<hdl, "netboot_enabled", "True", tok>>, "ok"),
         Entry("sync_dhcp", <<tok>>, dhcp),
         Entry("save_system", <<hdl, tok>>, "ok"),
         Entry("power_system", <<hdl, "reboot", tok>>, "ok"),
         Entry("record", <<"START", "install", h>>, "ok"),
         Entry("record", <<"GOOD", "install.start", h>>, "ok")>>

\* n sleep/check cycles of which only the last sees the flag cleared.
RECURSIVE Cycles(_, _)
Cycles(h, n) ==
    IF n = 0 THEN <<>>
    ELSE IF n = 1
      THEN <<Entry("sleep", <<>>, "ok"), Entry("get_system", <<h>>, "cleared")>>
      ELSE <<Entry("sleep", <<>>, "ok"), Entry("get_system", <<h>>, "enabled")>>
           \o Cycles(h, n - 1)

Ending(h) ==
    <<Entry("wait_for_restart", <<>>, "ok"),
      Entry("record", <<"END GOOD", "install", h>>, "ok")>>

ExpectedTrace(h, hdl, tok, setProfile, target, dhcp, n) ==
    Setup(h, hdl, tok, setProfile, target, dhcp) \o Cycles(h, n) \o Ending(h)

\* The end-to-end scenario of the specification, call by call.
ScenarioTrace(hdl, tok, dhcp) ==
    <<Entry("find_system", <<"h1">>, "found"),
      Entry("get_system_handle", <<"h1", tok>>, "ok"),
      Entry("get_system", <<"h1">>, "info"),
      Entry("modify_system", <<hdl, "profile", "new", tok>>, "ok"),
      Entry("modify_system", <<hdl, "netboot_enabled", "True", tok>>, "ok"),
      Entry("sync_dhcp", <<tok>>, dhcp),
      Entry("save_system", <<hdl, tok>>, "ok"),
      Entry("power_system", <<hdl, "reboot", tok>>, "ok"),
      Entry("record", <<"START", "install", "h1">>, "ok"),
      Entry("record", <<"GOOD", "install.start", "h1">>, "ok"),
      Entry("sleep", <<>>, "ok"),
      Entry("get_system", <<"h1">>, "enabled"),
      Entry("sleep", <<>>, "ok"),
      Entry("get_system", <<"h1">>, "cleared"),
      Entry("wait_for_restart", <<>>, "ok"),
      Entry("record", <<"END GOOD", "install", "h1">>, "ok")>>

InScenario ==
    /\ Installing /\ pc = "done" /\ host = "h1"
    /\ current_profile = "old" /\ profileArg = "new"
    /\ timeoutArg.given /\ timeoutArg.secs = 120 /\ clearAt = 2

\* C8: a successful install has issued exactly the listed calls in the listed
\* order, with the profile write only for a non-empty target that differs,
\* and one or more sleep/check cycles of which only the last sees the flag
\* cleared; in the scenario (current 'old', target 'new', timeout 120, flag
\* cleared on poll 2) the trace is the listed one, and the scenario times
\* out only when a status query was slow.
C8_SuccessfulInstallOrder ==
    /\ SucceededInstall =>
          /\ polls >= 1
          /\ \E d \in DhcpResults :
                 trace = ExpectedTrace(host, system_handle, token,
                             Target \notin {"", None} /\ Target # current_profile,
                             Target, d, polls)
    /\ (InScenario /\ outcome = "ok") =>
          \E d \in DhcpResults : trace = ScenarioTrace(system_handle, token, d)
    /\ (InScenario /\ outcome = "HostInstallTimeoutError") => slowTicks > 0

C8_Witness ==
    /\ InScenario /\ outcome = "ok" /\ slept = 120
    /\ trace = ScenarioTrace("hdl1", "tok1", "ok")

InstallEnded == Installing /\ pc = "done"
Faulted      == {i \in 1..Len(trace) : trace[i].res \notin {"ok", "found", "info", "enabled", "cleared"}}

\* C9 as stated: the timeout error is the only error an install_host call
\* ever ends with; every other failure is absorbed.
C9_Original ==
    InstallEnded => outcome \in {"ok", "HostInstallTimeoutError"}

\* C9 amended: the timeout error carries the hostname and is raised right
\* after END FAIL was recorded, in a run none of whose calls failed except
\* possibly sync_dhcp; a sync_dhcp fault is the only failure install_host
\* absorbs.  The registration error (no system found), a fault of any other
\* remote call and a failure of wait_for_restart end install_host too, at
\* the call that failed.
C9_ErrorsOfInstall ==
    InstallEnded =>
        /\ outcome \in {"ok", "HostInstallTimeoutError", "ValueError",
                        "Fault", "RestartError"}
        /\ \A i \in Faulted : i < Len(trace) => trace[i].call = "sync_dhcp"
        /\ outcome \in {"ok", "HostInstallTimeoutError"} =>
               Faulted \subseteq Calls("sync_dhcp")
        /\ outcome = "HostInstallTimeoutError" =>
               /\ errHost = host
               /\ ~install_successful
               /\ Last(trace) = Entry("record", <<"END FAIL", "install", host>>, "ok")
        /\ outcome = "ok" =>
               /\ install_successful
               /\ Last(trace) = Entry("record", <<"END GOOD", "install", host>>, "ok")
        /\ outcome = "ValueError" =>
               /\ errHost = host
               /\ trace = <<Entry("find_system", <<host>>, "none")>>
        /\ outcome = "Fault" =>
               Last(trace).res = "fault" /\ Last(trace).call # "sync_dhcp"
        /\ outcome = "RestartError" =>
               Last(trace) = Entry("wait_for_restart", <<>>, "raised")

C9_Witness ==
    /\ InstallEnded /\ outcome = "HostInstallTimeoutError" /\ errHost = "h1"
    /\ \E i \in DhcpFaults : trace[i].res = "unknown remote method"
    /\ timeout = 60

PowerEnded == op = "power_host" /\ Configured /\ host \in Registered /\ pc = "done"

\* C10: power_host on a configured client and a registered host resolves the
\* handle and then issues one power_system call with the handle, the
\* caller's state and the session token; it issues no modify_system,
\* save_system, sync_dhcp or get_system, sleeps and polls not at all and
\* records no event.  It ends early only on a fault of one of its calls.
C10_PowerHostSingleCall ==
    (op = "power_host" /\ Configured /\ host \in Registered) =>
        /\ \A i \in 1..Len(trace) :
               trace[i].call \in {"find_system", "get_system_handle", "power_system"}
        /\ Cardinality(Calls("power_system")) <= 1
        /\ slept = 0 /\ polls = 0 /\ errorsLogged = 0
        /\ (pc = "done" /\ outcome = "ok") =>
               trace = <<Entry("find_system", <<host>>, "found"),
                         Entry("get_system_handle", <<system, token>>, "ok"),
                         Entry("power_system", <<system_handle, state, token>>, "ok")>>
        /\ \A i \in Calls("power_system") :
               /\ i = 3 /\ trace[2].res = "ok"
               /\ trace[i].args = <<system_handle, state, token>>
               /\ system_handle = HandleNames[handlesIssued] /\ token = "tok1"
        /\ pc = "done" =>
               \/ outcome = "ok"
               \/ outcome = "Fault" /\ Last(trace).res = "fault"

C10_Witness ==
    /\ PowerEnded /\ outcome = "ok" /\ state = "off"
    /\ Cardinality(Calls("power_system")) = 1

\* The status queries made inside the poll loop: all but the read of the
\* current profile, which is the third call of an install.
LoopQueries == StatusQueries \ {3}
Events(status) == {i \in Calls("record") : trace[i].args[1] = status}

\* C11: every status query of the poll loop comes right after a sleep of
\* 60 seconds and every sleep is followed by one status query, so the i-th
\* query of the loop follows the i-th sleep, and no query of the loop is
\* made before the first sleep, which follows the GOOD install.start event.
C11_SleepBeforeEveryPoll ==
    Installing =>
        /\ \A i \in LoopQueries :
               /\ i > 3
               /\ trace[i - 1] = Entry("sleep", <<>>, "ok")
               /\ trace[3].call = "get_system"
        /\ \A j \in Sleeps :
               /\ j < Len(trace) => trace[j + 1].call = "get_system"
               /\ j = Len(trace) => pc = "poll"
               /\ trace[j - 1].call \in {"record", "get_system"}
               /\ trace[j - 1].call = "record" => trace[j - 1].args[1] = "GOOD"
        /\ slept = step_time * Cardinality(Sleeps)
        /\ polls = Cardinality(LoopQueries)
        /\ Cardinality(Sleeps) = polls + (IF pc = "poll" THEN 1 ELSE 0)
        /\ install_start # 0 => now - install_start >= step_time * Cardinality(Sleeps)

C11_Witness ==
    /\ Installing /\ pc = "done" /\ Cardinality(LoopQueries) = 3
    /\ Cardinality(Sleeps) = 3 /\ slept = 180

\* C12 as stated: after a poll that found the flag set, the loop ends by
\* timeout only when the elapsed time is strictly greater than the timeout.
C12_Original ==
    (Installing /\ polls >= 1 /\ ~install_successful
       /\ pc \in {"record_end_fail", "raise_timeout"}) =>
        time_elapsed > timeout

\* C12 amended: the loop ends by timeout when the elapsed time measured from
\* the loop start has reached the timeout (is greater than or equal to it);
\* after a poll that found the flag set another cycle is made exactly when
\* the elapsed time is still less than the timeout.
C12_LoopEndsAtTimeout ==
    /\ (Installing /\ ~install_successful
          /\ pc \in {"record_end_fail", "raise_timeout"}) =>
           /\ time_elapsed >= timeout
           /\ polls >= 1 => time_elapsed = now - install_start
    /\ (Installing /\ pc = "sleep") =>
           /\ time_elapsed < timeout
           /\ time_elapsed = now - install_start
           /\ ~install_successful

C12_Witness ==
    /\ Installing /\ pc = "raise_timeout" /\ polls = 1
    /\ timeout = 60 /\ time_elapsed = 60

\* C13: a fault of find_system, get_system_handle, get_system, modify_system,
\* save_system or power_system ends install_host at that call with that
\* fault: no later call is made, and when the failing call is power_system
\* or an earlier one, no event was recorded and nothing slept or polled.
C13_FaultsPropagate ==
    Installing =>
        \A i \in 1..Len(trace) :
            trace[i].res = "fault" =>
                /\ trace[i].call \in {"find_system", "get_system_handle", "get_system",
                                      "modify_system", "save_system", "power_system"}
                /\ i = Len(trace)
                /\ pc = "done" /\ outcome = "Fault"
                /\ errHost = Unset
                /\ i \notin LoopQueries =>
                       /\ Calls("record") = {} /\ Sleeps = {}
                       /\ Calls("wait_for_restart") = {}
                       /\ slept = 0 /\ polls = 0

C13_Witness ==
    /\ InstallEnded /\ outcome = "Fault"
    /\ Last(trace).call = "power_system" /\ Len(trace) = 7

\* C14: with no profile passed the fallback profile is the target: an install
\* that has read the current profile writes the fallback once when it is
\* non-empty and differs from the current profile; whenever the target (the
\* fallback, or the profile passed) is empty or equals the current profile
\* nothing is written and the effective profile is the current one.
C14_FallbackProfile ==
    /\ (ProfileRead /\ profileArg = None) =>
          IF fallback_profile \notin {"", None} /\ fallback_profile # current_profile
            THEN /\ profile = fallback_profile
                 /\ pc = "modify_profile" => Modifies("profile") = {}
                 /\ pc # "modify_profile" =>
                        /\ Cardinality(Modifies("profile")) = 1
                        /\ \A i \in Modifies("profile") : trace[i].args[3] = fallback_profile
            ELSE /\ profile = current_profile
                 /\ Modifies("profile") = {}
    /\ (ProfileRead /\ profileArg # None) =>
          profile = IF profileArg # "" /\ profileArg # current_profile
                      THEN profileArg ELSE current_profile

C14_Witness ==
    /\ SucceededInstall /\ profileArg = None /\ fallback_profile = "new"
    /\ current_profile = "old" /\ profile = "new"
    /\ Cardinality(Modifies("profile")) = 1

Restarts == Calls("wait_for_restart")

\* C15: END GOOD is recorded only right after wait_for_restart returned, which
\* is called only right after a poll saw the flag cleared; when
\* wait_for_restart fails the install ends there with that failure and
\* neither END GOOD nor END FAIL is recorded.
C15_EndGoodAfterRestart ==
    Installing =>
        /\ \A i \in Events("END GOOD") :
               /\ i >= 3
               /\ trace[i - 1] = Entry("wait_for_restart", <<>>, "ok")
               /\ install_successful
        /\ \A i \in Restarts :
               /\ i >= 2
               /\ trace[i - 1] = Entry("get_system", <<system>>, "cleared")
               /\ trace[i].res = "raised" =>
                      /\ i = Len(trace) /\ pc = "done" /\ outcome = "RestartError"
                      /\ Events("END GOOD") = {} /\ Events("END FAIL") = {}
        /\ (pc = "done" /\ outcome = "RestartError") =>
               Last(trace) = Entry("wait_for_restart", <<>>, "raised")

C15_Witness ==
    /\ InstallEnded /\ outcome = "RestartError" /\ clearAt = 2 /\ polls = 2
    /\ Events("END GOOD") = {}

Mutating == Calls("modify_system") \cup Calls("save_system") \cup Calls("power_system")

\* C16: a call never works with a handle of an earlier call: before its first
\* modify_system, save_system or power_system it has made its own find_system
\* and get_system_handle, and every such call carries the handle that
\* get_system_handle returned, the latest the server issued.  A configured
\* client has logged in exactly once and its token never changes.
C16_HandleResolvedPerCall ==
    /\ Configured => logins = 1 /\ token = "tok1"
    /\ (Constructed /\ ~Configured) => logins = 0 /\ token = Unset
    /\ Configured =>
          /\ \A i \in Mutating :
                 /\ i >= 3
                 /\ trace[1] = Entry("find_system", <<host>>, "found")
                 /\ trace[2] = Entry("get_system_handle", <<system, token>>, "ok")
                 /\ trace[i].args[1] = system_handle
                 /\ trace[i].args[Len(trace[i].args)] = token
          /\ Cardinality(Calls("get_system_handle")) <= 1
          /\ system_handle # Unset =>
                 /\ handlesIssued >= 1
                 /\ system_handle = HandleNames[handlesIssued]
          /\ (system_handle = Unset /\ pc # "idle") => Mutating = {}

C16_Witness ==
    /\ op = "power_host" /\ pc = "done" /\ outcome = "ok"
    /\ handlesIssued = 2 /\ system_handle = "hdl2"
    /\ trace[3].args[1] = "hdl2"

\* C17: a poll that sees the flag cleared ends the loop on the success path
\* whatever the elapsed time is, also at or past the timeout: the install
\* then waits for the restart and never records END FAIL.  END FAIL and the
\* timeout error come only when the latest poll, if there was one, saw the
\* flag still set.
C17_SuccessBeforeTimeout ==
    Installing =>
        /\ \A i \in LoopQueries :
               trace[i].res = "cleared" =>
                   /\ \A j \in LoopQueries : j <= i
                   /\ install_successful
                   /\ Events("END FAIL") = {}
                   /\ outcome \in {"none", "ok", "RestartError"}
                   /\ i = Len(trace) => pc = "wait_for_restart"
                   /\ i < Len(trace) => trace[i + 1].call = "wait_for_restart"
        /\ (Events("END FAIL") # {} \/ pc = "record_end_fail") =>
               /\ ~install_successful
               /\ \A i \in LoopQueries : trace[i].res = "enabled"

C17_Witness ==
    /\ Installing /\ pc = "wait_for_restart" /\ install_successful
    /\ timeout = 60 /\ now - install_start >= 2 * timeout

Ends == Events("END GOOD") \cup Events("END FAIL")

\* C18: the events of one install are well bracketed.  START is recorded at
\* most once and GOOD install.start is the next call; at most one END event
\* is recorded and nothing is called after it; END FAIL is there exactly when
\* the timeout error is being raised or was raised; END GOOD and END FAIL
\* never both; and a finished run that recorded START and met no fault and
\* no failure of wait_for_restart recorded exactly one END event.
C18_EventsBracketed ==
    Installing =>
        /\ Cardinality(Events("START")) <= 1
        /\ Cardinality(Events("GOOD")) <= 1
        /\ \A i \in Events("START") :
               /\ i = Len(trace) => pc = "record_good"
               /\ i < Len(trace) =>
                      trace[i + 1] = Entry("record", <<"GOOD", "install.start", host>>, "ok")
        /\ \A i \in Events("GOOD") : i > 1 /\ (i - 1) \in Events("START")
        /\ Cardinality(Ends) <= 1
        /\ \A i \in Ends : i = Len(trace) /\ Events("START") # {} /\ Events("GOOD") # {}
        /\ Calls("record") = Events("START") \cup Events("GOOD") \cup Ends
        /\ Events("END FAIL") # {} <=>
               (pc = "raise_timeout" \/ (pc = "done" /\ outcome = "HostInstallTimeoutError"))
        /\ Events("END GOOD") # {} <=> (pc = "done" /\ outcome = "ok")
        /\ (pc = "done" /\ Events("START") # {}
              /\ outcome \notin {"Fault", "RestartError"}) =>
               Cardinality(Ends) = 1

C18_Witness ==
    /\ TimedOut /\ Installing /\ Events("START") = {9} /\ Events("GOOD") = {10}
    /\ Events("END FAIL") = {Len(trace)} /\ polls = 2

\* The number of cycles the timeout allows: ceil(timeout / step_time).
MaxCycles(tmo) == IF tmo <= 0 THEN 0 ELSE (tmo + step_time - 1) \div step_time
InLoop == Installing /\ pc \in {"sleep", "poll"}

\* C19: the poll loop makes at most ceil(timeout / 60) sleep/check cycles and
\* none when the timeout is zero or negative; every cycle started brings the
\* elapsed time at least 60 seconds forward, so the cycles that are left
\* strictly decrease; a loop that was entered is left.
LoopBounded ==
    Installing =>
        /\ Cardinality(Sleeps) <= MaxCycles(timeout)
        /\ polls <= MaxCycles(timeout)
        /\ timeout <= 0 => Sleeps = {} /\ polls = 0 /\ pc \notin {"sleep", "poll"}
        /\ pc = "sleep" =>
               /\ polls < MaxCycles(timeout)
               /\ time_elapsed >= step_time * polls
        /\ pc = "poll" => Cardinality(Sleeps) = polls + 1
        /\ (pc = "done" /\ install_start # 0) =>
               outcome \in {"ok", "HostInstallTimeoutError", "Fault", "RestartError"}

C19_LoopTerminates == []LoopBounded /\ (InLoop ~> ~InLoop)

C19_Witness ==
    /\ TimedOut /\ Installing /\ ~timeoutArg.given
    /\ polls = MaxCycles(DefaultTimeout) /\ Cardinality(Sleeps) = 60

====
